---- MODULE Spec2Model ----
(***************************************************************************)
(* Model of src/backends/c/tests/run_tests.py: the metadata-driven test    *)
(* runner of the C backend.  main() discovers the test.vx files, and for   *)
(* each one run_test() parses the directives, copies the sibling files     *)
(* into a fresh temporary directory, runs the toolchain command there and  *)
(* verifies the result, directly or through gcc and the generated binary.  *)
(*                                                                         *)
(* Text is modelled as a sequence of symbols (characters, or whole tokens  *)
(* for commands and paths).  An optional value (Python None or a value) is *)
(* a sequence of length 0 or 1.  The value run_test returns is optional    *)
(* too: <<>> is the empty string "", <<d>> a diagnostic d.                 *)
(***************************************************************************)
EXTENDS Integers, Sequences, FiniteSets, TLC

\* ------------------------------------------------------------- bounds

\* Number of directories under the tests root that can hold a test.vx.
MaxPaths == 2

\* Number of lines of one test file.
MaxLines == 3

\* ------------------------------------------------------ value domains

None == <<>>

Some(v) == <<v>>

\* Paths are numbered in lexicographic order: path p sorts before q iff p < q.
Paths == 1..MaxPaths

\* Exit codes a subprocess can end with.
ExitCodes == {0, 1}

\* What a subprocess can leave on its standard output and standard error.
Captured ==
    { [stdout |-> <<>>, stderr |-> <<>>],
      [stdout |-> <<"o">>, stderr |-> <<"a">>],
      [stdout |-> <<"o", "k">>, stderr |-> <<"b", "a">>] }

\* subprocess.CompletedProcess: what capture_output=True, text=True records.
Results ==
    { [returncode |-> rc, stdout |-> c.stdout, stderr |-> c.stderr] :
        rc \in ExitCodes, c \in Captured }

\* Names of the entries a test directory or a working directory can hold.
Names == {"test.vx", "data"}

\* A test directory: test.vx is a regular file (rglob found it), "data" is
\* missing, a subdirectory or a regular file.  A regular file is named by
\* its content: "orig" as the repository holds it, "new" as a command wrote it.
Listings == {l \in [Names -> {"absent", "orig", "dir"}] : l["test.vx"] = "orig"}

\* What the toolchain command can write into its working directory.
Writes == SUBSET {"data"}

EmptyDir == [n \in Names |-> "absent"]

\* ------------------------------------------------------- text helpers

\* str.strip(): the text without its leading and trailing blanks.
RECURSIVE strip(_)
strip(s) ==
    IF s # <<>> /\ s[Len(s)] = " " THEN strip(SubSeq(s, 1, Len(s) - 1))
    ELSE IF s # <<>> /\ Head(s) = " " THEN strip(Tail(s))
    ELSE s

\* str.lower() on one symbol.
lowerChar(c) ==
    CASE c = "T" -> "t" [] c = "R" -> "r" [] c = "U" -> "u" [] c = "E" -> "e"
      [] c = "Y" -> "y" [] c = "S" -> "s" [] c = "N" -> "n" [] c = "O" -> "o"
      [] OTHER -> c

\* str.lower() on text.
lower(s) == [i \in DOMAIN s |-> lowerChar(s[i])]

\* str.lower() on a directive key.
lowerKey(k) ==
    CASE k = "Command" -> "command"
      [] k = "COMMAND" -> "command"
      [] k = "Expect-Exit" -> "expect-exit"
      [] k = "Expect-Stderr" -> "expect-stderr"
      [] k = "Run-Generated" -> "run-generated"
      [] OTHER -> k

\* Python's `needle in haystack` on text.
IsSubstring(needle, hay) ==
    \E i \in 0..(Len(hay) - Len(needle)) :
        \A j \in 1..Len(needle) : hay[i + j] = needle[j]

Digits == {"0", "1", "2", "3", "4", "5", "6", "7", "8", "9"}

DigitVal(c) ==
    CASE c = "0" -> 0 [] c = "1" -> 1 [] c = "2" -> 2 [] c = "3" -> 3
      [] c = "4" -> 4 [] c = "5" -> 5 [] c = "6" -> 6 [] c = "7" -> 7
      [] c = "8" -> 8 [] c = "9" -> 9

RECURSIVE DigitsVal(_)
DigitsVal(s) ==
    IF s = <<>> THEN 0
    ELSE 10 * DigitsVal(SubSeq(s, 1, Len(s) - 1)) + DigitVal(s[Len(s)])

Unsigned(s) == IF s # <<>> /\ Head(s) \in {"+", "-"} THEN Tail(s) ELSE s

\* Whether int(value) succeeds: an optional sign and one or more digits.
IntOk(s) == Unsigned(s) # <<>> /\ \A i \in DOMAIN Unsigned(s) : Unsigned(s)[i] \in Digits

\* int(value).
IntVal(s) ==
    IF s # <<>> /\ Head(s) = "-" THEN 0 - DigitsVal(Unsigned(s)) ELSE DigitsVal(Unsigned(s))

\* ---------------------------------------------------- parse_metadata

\* A line of a test file: whether the directive pattern matches it, and the
\* two groups the pattern captures.
Line(k, v) == [match |-> TRUE, key |-> k, value |-> v]

PlainLine == [match |-> FALSE, key |-> "", value |-> <<>>]

\* The local variables of parse_metadata before its loop.
InitialMetadata ==
    [command |-> None, expect_exit |-> 0, expect_stderr |-> None,
     run_generated |-> FALSE, raised |-> "no"]

Truthy == {<<"t", "r", "u", "e">>, <<"1">>, <<"y", "e", "s">>}

\* ParseLine with a final else that rejects the key.
ParseLineStrict(m, line) ==
    LET key == lowerKey(line.key)
        value == strip(line.value)
    IN  IF ~line.match THEN m
        ELSE IF key = "command" THEN [m EXCEPT !.command = Some(value)]
        ELSE IF key = "expect-exit" THEN
            IF IntOk(value) THEN [m EXCEPT !.expect_exit = IntVal(value)]
            ELSE [m EXCEPT !.raised = "Invalid @expect-exit"]
        ELSE IF key = "expect-stderr" THEN [m EXCEPT !.expect_stderr = Some(value)]
        ELSE IF key = "run-generated" THEN
            [m EXCEPT !.run_generated = (lower(value) \in Truthy)]
        ELSE [m EXCEPT !.raised = "Unknown directive"]

\* ParseLine with a run_generated that, once true, stays true.
ParseLineSticky(m, line) ==
    LET key == lowerKey(line.key)
        value == strip(line.value)
    IN  IF ~line.match THEN m
        ELSE IF key = "command" THEN [m EXCEPT !.command = Some(value)]
        ELSE IF key = "expect-exit" THEN
            IF IntOk(value) THEN [m EXCEPT !.expect_exit = IntVal(value)]
            ELSE [m EXCEPT !.raised = "Invalid @expect-exit"]
        ELSE IF key = "expect-stderr" THEN [m EXCEPT !.expect_stderr = Some(value)]
        ELSE IF key = "run-generated" THEN
            [m EXCEPT !.run_generated = (m.run_generated \/ lower(value) \in Truthy)]
        ELSE m

\* One iteration of the loop of parse_metadata.
ParseLine(m, line) ==
    LET key == lowerKey(line.key)
        value == strip(line.value)
    IN  IF ~line.match THEN m
        ELSE IF key = "command" THEN [m EXCEPT !.command = Some(value)]
        ELSE IF key = "expect-exit" THEN
            IF IntOk(value) THEN [m EXCEPT !.expect_exit = IntVal(value)]
            ELSE [m EXCEPT !.raised = "Invalid @expect-exit"]
        ELSE IF key = "expect-stderr" THEN [m EXCEPT !.expect_stderr = Some(value)]
        ELSE IF key = "run-generated" THEN
            [m EXCEPT !.run_generated = (lower(value) \in Truthy)]
        ELSE m

\* The check after the loop written as `if command is None`.
ParseEndNone(m) ==
    IF m.command = None
    THEN [m EXCEPT !.raised = "Missing @command"]
    ELSE m

\* The check after the loop: `if not command` holds for None and for "".
ParseEnd(m) ==
    IF m.command = None \/ m.command = Some(<<>>)
    THEN [m EXCEPT !.raised = "Missing @command"]
    ELSE m

\* parse_metadata on the lines of a file: the exception ends the loop.
RECURSIVE ParseLines(_, _)
ParseLines(m, lines) ==
    IF lines = <<>> \/ m.raised # "no" THEN m
    ELSE ParseLines(ParseLine(m, Head(lines)), Tail(lines))

parse_metadata(lines) ==
    LET m == ParseLines(InitialMetadata, lines)
    IN  IF m.raised # "no" THEN m ELSE ParseEnd(m)

\* ----------------------------------------------------- replace_macros

ReplaceToken(t) ==
    CASE t = "{VEXEL}" -> "ROOT/build/vexel"
      [] t = "{VEXEL_FRONTEND}" -> "ROOT/build/vexel-frontend"
      [] OTHER -> t

replace_macros(cmd) == [i \in DOMAIN cmd |-> ReplaceToken(cmd[i])]

\* -------------------------------------------------------- diagnostics

\* The text run_test returns on failure, as the parts it is formatted from.
\* A part the f-string does not mention is None.
Diag(head, file, cmd, expected, substring, got, out, err) ==
    [head |-> head, file |-> file, command |-> cmd, expected |-> expected,
     substring |-> substring, got |-> got, stdout |-> out, stderr |-> err]

\* Lines 102-108: in generated mode the toolchain must exit 0.
CompileFailedDiag(file, cmd, res) ==
    Diag("compile failed", file, Some(cmd), Some(0), None, None,
         Some(res.stdout), Some(res.stderr))

\* Line 102 left out: gcc is tried whatever the toolchain's exit code.
ToolchainFailedNever(res, expect_exit) == FALSE

\* Line 102: in generated mode the toolchain has failed unless it exits 0.
ToolchainFailedUnlessExpected(res, expect_exit) == res.returncode # expect_exit

ToolchainFailed(res, expect_exit) == res.returncode # 0

\* GeneratedVerdict with the text of the last branch pasted into the first.
GeneratedVerdictOneText(file, expect_exit, gcc, run) ==
    IF gcc.returncode # 0 THEN
        Some(Diag("runtime exit mismatch", file, None, None, None, None,
                  Some(gcc.stdout), Some(gcc.stderr)))
    ELSE IF run = None \/ run[1].returncode # expect_exit THEN
        Some(Diag("runtime exit mismatch", file, None, Some(expect_exit), None,
                  IF run # None THEN Some(run[1].returncode) ELSE None,
                  Some(IF run # None THEN run[1].stdout ELSE <<>>),
                  Some(IF run # None THEN run[1].stderr ELSE <<>>)))
    ELSE None

\* GeneratedVerdict with the binary's exit code compared with 0.
GeneratedVerdictZero(file, expect_exit, gcc, run) ==
    IF gcc.returncode # 0 THEN
        Some(Diag("gcc failed", file, None, None, None, None,
                  Some(gcc.stdout), Some(gcc.stderr)))
    ELSE IF run = None \/ run[1].returncode # 0 THEN
        Some(Diag("runtime exit mismatch", file, None, Some(expect_exit), None,
                  IF run # None THEN Some(run[1].returncode) ELSE None,
                  Some(IF run # None THEN run[1].stdout ELSE <<>>),
                  Some(IF run # None THEN run[1].stderr ELSE <<>>)))
    ELSE None

\* Lines 110-123: the verdict on what compile_and_run returned.
GeneratedVerdict(file, expect_exit, gcc, run) ==
    IF gcc.returncode # 0 THEN
        Some(Diag("gcc failed", file, None, None, None, None,
                  Some(gcc.stdout), Some(gcc.stderr)))
    ELSE IF run = None \/ run[1].returncode # expect_exit THEN
        Some(Diag("runtime exit mismatch", file, None, Some(expect_exit), None,
                  IF run # None THEN Some(run[1].returncode) ELSE None,
                  Some(IF run # None THEN run[1].stdout ELSE <<>>),
                  Some(IF run # None THEN run[1].stderr ELSE <<>>)))
    ELSE None

\* DirectVerdict with the expected text looked for at the start of stderr only.
DirectVerdictPrefix(file, cmd, expect_exit, expect_stderr, res) ==
    IF res.returncode # expect_exit THEN
        Some(Diag("exit mismatch", file, Some(cmd), Some(expect_exit), None,
                  Some(res.returncode), Some(res.stdout), Some(res.stderr)))
    ELSE IF expect_stderr # None /\ expect_stderr[1] # <<>>
            /\ ~(Len(expect_stderr[1]) <= Len(res.stderr)
                 /\ SubSeq(res.stderr, 1, Len(expect_stderr[1])) = expect_stderr[1]) THEN
        Some(Diag("stderr mismatch", file, None, None, expect_stderr, None,
                  None, Some(res.stderr)))
    ELSE None

\* Lines 125-137: the verdict of direct mode on the toolchain's result.  An
\* expect_stderr of "" is falsy, like None.
DirectVerdict(file, cmd, expect_exit, expect_stderr, res) ==
    IF res.returncode # expect_exit THEN
        Some(Diag("exit mismatch", file, Some(cmd), Some(expect_exit), None,
                  Some(res.returncode), Some(res.stdout), Some(res.stderr)))
    ELSE IF expect_stderr # None /\ expect_stderr[1] # <<>>
            /\ ~IsSubstring(expect_stderr[1], res.stderr) THEN
        Some(Diag("stderr mismatch", file, None, None, expect_stderr, None,
                  None, Some(res.stderr)))
    ELSE None

\* run_test with the binary's stderr searched for expect_stderr in generated
\* mode too.
run_test_stderr_checked(file, m, res, gcc, run) ==
    IF m.run_generated THEN
        IF ToolchainFailed(res, m.expect_exit)
        THEN Some(CompileFailedDiag(file, m.command[1], res))
        ELSE LET ran == IF gcc.returncode = 0 THEN Some(run) ELSE None
                 verdict == GeneratedVerdict(file, m.expect_exit, gcc, ran)
             IN  IF verdict = None /\ m.expect_stderr # None
                    /\ ~IsSubstring(m.expect_stderr[1], run.stderr)
                 THEN Some(Diag("stderr mismatch", file, None, None, m.expect_stderr,
                                None, None, Some(run.stderr)))
                 ELSE verdict
    ELSE DirectVerdict(file, m.command[1], m.expect_exit, m.expect_stderr, res)

\* Lines 100-137: the value run_test returns for the metadata m when the
\* toolchain command answers res and, should they be started, gcc answers gcc
\* and the binary answers run.  compile_and_run (lines 79-80) starts the binary
\* only after a gcc that exits 0.
run_test(file, m, res, gcc, run) ==
    IF m.run_generated THEN
        IF ToolchainFailed(res, m.expect_exit)
        THEN Some(CompileFailedDiag(file, m.command[1], res))
        ELSE GeneratedVerdict(file, m.expect_exit, gcc,
                              IF gcc.returncode = 0 THEN Some(run) ELSE None)
    ELSE DirectVerdict(file, m.command[1], m.expect_exit, m.expect_stderr, res)

\* ------------------------------------------------------------- state

VARIABLES
    found,        \* the paths under the tests root that hold a test.vx
    test_files,   \* main: the sorted list of test files
    idx,          \* main: position of the for loop in test_files
    failures,     \* main: the diagnostics collected so far
    printed,      \* what main has printed
    exit_code,    \* the exit status of the process, None while it runs
    pc,           \* the statement the process is at
    meta,         \* parse_metadata / run_test: command, expect_exit, expect_stderr, run_generated
    nread,        \* parse_metadata: lines of the file consumed by the loop
    parent,       \* the entries of test_file.parent, as iterdir lists them
    tmp_path,     \* run_test: the temporary directory, None before it is made
    tmpfs,        \* the temporary directories that exist, with their entries
    compile_res,  \* run_test: result of the toolchain command
    gcc_res,      \* run_test: result of gcc, from compile_and_run
    run_res,      \* run_test: result of ./out, from compile_and_run
    error,        \* the value run_test returns
    trace,        \* the subprocesses the current run_test has started, in order
    evaluated,    \* the calls of run_test that have returned, with their values
    lines,        \* parse_metadata alone: the lines of the file it is given
    parsed,       \* parse_metadata alone: what it returned or raised, None before
    run_test_args,    \* run_test called twice: the test and what its commands answer
    run_test_errors,  \* run_test called twice: the two values returned, None before
    main_args,    \* main run twice: the test tree, and the order rglob lists it in
    main_results  \* main run twice: what each run observed, None before

\* The state of the test runner's process.
processVars == <<found, test_files, idx, failures, printed, exit_code, pc, meta, nread,
                 parent, tmp_path, tmpfs, compile_res, gcc_res, run_res, error, trace,
                 evaluated>>

\* The state of the functions taken on their own.
functionVars == <<lines, parsed, run_test_args, run_test_errors, main_args, main_results>>

vars == <<processVars, functionVars>>

mainVars == <<found, test_files, idx, failures, printed, exit_code, evaluated>>

frameVars == <<meta, nread, parent, tmp_path, compile_res, gcc_res, run_res, error>>

\* The lines a test file is made of.
FileLines ==
    { Line("command", <<"{VEXEL}", "t">>),
      Line("Command", <<>>),
      Line("expect-exit", <<"1">>),
      Line("expect-exit", <<"x">>),
      Line("expect-stderr", <<"a">>),
      Line("expect-stderr", <<>>),
      Line("run-generated", <<"T", "r", "u", "e">>),
      Line("run-generated", <<"n", "o">>),
      Line("note", <<"1">>),
      PlainLine }

\* sorted(): the paths of a set in ascending order.
RECURSIVE sorted(_)
sorted(S) ==
    IF S = {} THEN <<>>
    ELSE LET least == CHOOSE p \in S : \A q \in S : p <= q
         IN  <<least>> \o sorted(S \ {least})

\* tempfile.mkdtemp: a directory name that does not exist yet.
mkdtemp(fs) == CHOOSE d \in 1..(Cardinality(DOMAIN fs) + 1) : d \notin DOMAIN fs

\* The copy done with shutil.copytree: subdirectories are copied too.
CopyTree(dir, listing) ==
    [n \in Names |-> IF listing[n] # "absent" THEN listing[n] ELSE dir[n]]

\* Lines 96-98: the working directory after shutil.copy has put a copy of
\* every regular file of the listing into it.
CopySiblingFiles(dir, listing) ==
    [n \in Names |-> IF listing[n] \notin {"absent", "dir"} THEN listing[n] ELSE dir[n]]

\* The working directory after a command has written the files w into it.
WriteFiles(dir, w) == [n \in Names |-> IF n \in w THEN "new" ELSE dir[n]]

\* subprocess.run without cwd: the command starts in the directory the
\* runner itself was started in.
subprocess_run_inherited(stage, cwd, returncode) ==
    [stage |-> stage, cwd |-> None, returncode |-> returncode]

\* Lines 61-67, 72-77 and 81-86: subprocess.run(..., cwd=cwd), as the trace
\* of the test records it: the command, its working directory, its exit code.
subprocess_run(stage, cwd, returncode) ==
    [stage |-> stage, cwd |-> Some(cwd), returncode |-> returncode]

\* A cleanup written after the block instead: an exception skips it.
exit_unless_raised(fs, d, raised) == IF raised THEN fs ELSE [e \in DOMAIN fs \ {d} |-> fs[e]]

\* TemporaryDirectory.__exit__: the directory is removed with its entries,
\* whether the block is left by a return or by an exception.
exit_with(fs, d, raised) == [e \in DOMAIN fs \ {d} |-> fs[e]]

\* The empty suite going through the loop and the report like any other.
AfterDiscoveryNoCheck(files) == IF 1 <= Len(files) THEN "run_test" ELSE "report"

\* main returning the number of failures.
ExitStatusCount(fails) == Len(fails)

\* Line 149: the for loop goes on while a test file is left.
ForLoop(i, files) == IF i <= Len(files) THEN "run_test" ELSE "report"

\* Lines 144-146: an empty suite returns at once.
AfterDiscovery(files) == IF files = <<>> THEN "done" ELSE ForLoop(1, files)

\* Lines 154-161: the value main returns.
ExitStatus(fails) == IF fails # <<>> THEN 1 ELSE 0

\* sys.exit(main()): an exception that leaves main ends the process with 1.
UncaughtExit == 1

Init ==
    /\ found \in SUBSET Paths
    /\ test_files = <<>>
    /\ idx = 1
    /\ failures = <<>>
    /\ printed = <<>>
    /\ exit_code = None
    /\ pc = "main"
    /\ meta = InitialMetadata
    /\ nread = 0
    /\ parent = EmptyDir
    /\ tmp_path = None
    /\ tmpfs = <<>>
    /\ compile_res = None
    /\ gcc_res = None
    /\ run_res = None
    /\ error = None
    /\ trace = <<>>
    /\ evaluated = <<>>
    /\ lines = <<>> /\ parsed = None
    /\ run_test_args = None /\ run_test_errors = None
    /\ main_args = None /\ main_results = None

\* ------------------------------------------------------------- main

\* Lines 141-148: discovery, and the early return of an empty suite.
Discover ==
    /\ pc = "main"
    /\ test_files' = sorted(found)
    /\ pc' = AfterDiscovery(test_files')
    /\ IF pc' = "done"
       THEN /\ printed' = <<[line |-> "No backend C tests found.", error |-> None,
                              count |-> 0]>>
            /\ exit_code' = Some(0)
       ELSE UNCHANGED <<printed, exit_code>>
    /\ UNCHANGED <<found, idx, failures, evaluated, frameVars, tmpfs, trace>>
    /\ UNCHANGED functionVars

\* Line 150: main calls run_test, which calls parse_metadata (lines 20-23).
CallRunTest ==
    /\ pc = "run_test"
    /\ meta' = InitialMetadata
    /\ nread' = 0
    /\ trace' = <<>>
    /\ pc' = "parse"
    /\ UNCHANGED <<mainVars, parent, tmp_path, tmpfs, compile_res, gcc_res,
                   run_res, error>>
    /\ UNCHANGED functionVars

\* An exception nothing catches: it leaves run_test and main, and the
\* interpreter ends the process.
Crash ==
    /\ pc' = "crashed"
    /\ exit_code' = Some(UncaughtExit)

\* Lines 26-42: one iteration of the loop over the lines of the file.
ReadLine ==
    /\ pc = "parse"
    /\ nread < MaxLines
    /\ \E line \in FileLines :
        /\ meta' = ParseLine(meta, line)
        /\ nread' = nread + 1
    /\ IF meta'.raised # "no"
       THEN Crash
       ELSE UNCHANGED <<pc, exit_code>>
    /\ UNCHANGED <<found, test_files, idx, failures, printed, evaluated, parent,
                   tmp_path, tmpfs, compile_res, gcc_res, run_res, error, trace>>
    /\ UNCHANGED functionVars

\* Lines 44-47 and 92: the end of the file, where parse_metadata returns or
\* raises, and replace_macros on the command.
EndOfFile ==
    /\ pc = "parse"
    /\ LET m == ParseEnd(meta)
       IN  IF m.raised # "no"
           THEN /\ meta' = m
                /\ Crash
           ELSE /\ meta' = [m EXCEPT !.command = Some(replace_macros(m.command[1]))]
                /\ pc' = "mkdtemp"
                /\ UNCHANGED exit_code
    /\ nread' = 0
    /\ UNCHANGED <<found, test_files, idx, failures, printed, evaluated,
                   parent, tmp_path, tmpfs, compile_res, gcc_res, run_res, error,
                   trace>>
    /\ UNCHANGED functionVars

\* Lines 94-95: the with statement makes the temporary directory.
MakeTemp ==
    /\ pc = "mkdtemp"
    /\ LET d == mkdtemp(tmpfs)
       IN  /\ tmp_path' = Some(d)
           /\ tmpfs' = (d :> EmptyDir) @@ tmpfs
    /\ pc' = "copy"
    /\ UNCHANGED <<mainVars, meta, nread, parent, compile_res, gcc_res, run_res,
                   error, trace>>
    /\ UNCHANGED functionVars

\* Line 94: the temporary directory cannot be made, and OSError leaves main.
MakeTempFails ==
    /\ pc = "mkdtemp"
    /\ Crash
    /\ UNCHANGED <<found, test_files, idx, failures, printed, evaluated, frameVars,
                   tmpfs, trace>>
    /\ UNCHANGED functionVars

\* Lines 96-98: every regular file of the test's directory is copied.
CopySiblings ==
    /\ pc = "copy"
    /\ \E listing \in Listings :
        /\ parent' = listing
        /\ tmpfs' = [tmpfs EXCEPT ![tmp_path[1]] = CopySiblingFiles(@, listing)]
    /\ pc' = "toolchain"
    /\ UNCHANGED <<mainVars, meta, nread, tmp_path, compile_res, gcc_res, run_res,
                   error, trace>>
    /\ UNCHANGED functionVars

\* Lines 96-98: shutil.copy raises after some of the files were copied, and
\* the exception leaves the with block and main.
CopyFails ==
    /\ pc = "copy"
    /\ \E listing \in Listings : parent' = listing
    /\ tmpfs' = exit_with(tmpfs, tmp_path[1], TRUE)
    /\ Crash
    /\ UNCHANGED <<found, test_files, idx, failures, printed, evaluated, meta,
                   nread, tmp_path, compile_res, gcc_res, run_res, error, trace>>
    /\ UNCHANGED functionVars

\* Line 100: run_command runs the toolchain command in the working directory.
RunToolchain ==
    /\ pc = "toolchain"
    /\ \E res \in Results, w \in Writes :
        /\ compile_res' = Some(res)
        /\ tmpfs' = [tmpfs EXCEPT ![tmp_path[1]] = WriteFiles(@, w)]
        /\ trace' = Append(trace, subprocess_run("toolchain", tmp_path[1], res.returncode))
    /\ pc' = "verify"
    /\ UNCHANGED <<mainVars, meta, nread, parent, tmp_path, gcc_res, run_res, error>>
    /\ UNCHANGED functionVars

\* Line 100: subprocess.run raises (the shell cannot be started), and the
\* exception leaves the with block and main.
ToolchainRaises ==
    /\ pc = "toolchain"
    /\ tmpfs' = exit_with(tmpfs, tmp_path[1], TRUE)
    /\ Crash
    /\ UNCHANGED <<found, test_files, idx, failures, printed, evaluated, frameVars,
                   trace>>
    /\ UNCHANGED functionVars

\* Lines 101-108 and 125-137: what run_test makes of the toolchain's result.
\* A return statement leaves the with block.
VerifyToolchain ==
    /\ pc = "verify"
    /\ LET file == test_files[idx]
           res == compile_res[1]
       IN  IF meta.run_generated
           THEN IF ToolchainFailed(res, meta.expect_exit)
                THEN /\ error' = Some(CompileFailedDiag(file, meta.command[1], res))
                     /\ tmpfs' = exit_with(tmpfs, tmp_path[1], FALSE)
                     /\ pc' = "collect"
                ELSE /\ pc' = "compile_and_run"
                     /\ UNCHANGED <<error, tmpfs>>
           ELSE /\ error' = DirectVerdict(file, meta.command[1], meta.expect_exit,
                                          meta.expect_stderr, res)
                /\ tmpfs' = exit_with(tmpfs, tmp_path[1], FALSE)
                /\ pc' = "collect"
    /\ UNCHANGED <<mainVars, meta, nread, parent, tmp_path, compile_res, gcc_res,
                   run_res, trace>>
    /\ UNCHANGED functionVars

\* Lines 70-87, called at line 109: compile_and_run runs gcc and, when gcc
\* exits 0, the binary it built.
CompileAndRun ==
    /\ pc = "compile_and_run"
    /\ \E gcc \in Results :
        /\ gcc_res' = Some(gcc)
        /\ IF gcc.returncode # 0
           THEN /\ run_res' = None
                /\ trace' = Append(trace, subprocess_run("gcc", tmp_path[1],
                                                         gcc.returncode))
           ELSE \E run \in Results :
                /\ run_res' = Some(run)
                /\ trace' = trace \o
                       <<subprocess_run("gcc", tmp_path[1], gcc.returncode),
                         subprocess_run("out", tmp_path[1], run.returncode)>>
    /\ pc' = "verify_generated"
    /\ UNCHANGED <<mainVars, meta, nread, parent, tmp_path, tmpfs, compile_res, error>>
    /\ UNCHANGED functionVars

\* Lines 72 and 81: subprocess.run raises (no gcc on the PATH, or ./out cannot
\* be executed), and the exception leaves the with block and main.
CompileAndRunRaises ==
    /\ pc = "compile_and_run"
    /\ \/ trace' = trace
       \/ trace' = Append(trace, subprocess_run("gcc", tmp_path[1], 0))
    /\ tmpfs' = exit_with(tmpfs, tmp_path[1], TRUE)
    /\ Crash
    /\ UNCHANGED <<found, test_files, idx, failures, printed, evaluated, frameVars>>
    /\ UNCHANGED functionVars

\* Lines 110-123: what run_test makes of the results of compile_and_run.
VerifyGenerated ==
    /\ pc = "verify_generated"
    /\ error' = GeneratedVerdict(test_files[idx], meta.expect_exit, gcc_res[1], run_res)
    /\ tmpfs' = exit_with(tmpfs, tmp_path[1], FALSE)
    /\ pc' = "collect"
    /\ UNCHANGED <<mainVars, meta, nread, parent, tmp_path, compile_res, gcc_res,
                   run_res, trace>>
    /\ UNCHANGED functionVars

\* Lines 150-152: run_test has returned; a non-empty error is collected, and
\* the frame of run_test is gone.
Collect ==
    /\ pc = "collect"
    /\ failures' = IF error # None THEN Append(failures, error[1]) ELSE failures
    /\ evaluated' = Append(evaluated, [file |-> test_files[idx], error |-> error])
    /\ idx' = idx + 1
    /\ pc' = ForLoop(idx + 1, test_files)
    /\ meta' = InitialMetadata
    /\ nread' = 0
    /\ parent' = EmptyDir
    /\ tmp_path' = None
    /\ compile_res' = None
    /\ gcc_res' = None
    /\ run_res' = None
    /\ error' = None
    /\ UNCHANGED <<found, test_files, printed, exit_code, tmpfs, trace>>
    /\ UNCHANGED functionVars

\* Report with a summary that counts the tests run, not the failures.
ReportTotal ==
    /\ pc = "report"
    /\ IF failures # <<>>
       THEN printed' = [i \in 1..Len(failures) |->
                           [line |-> "FAIL:", error |-> Some(failures[i]), count |-> 0]]
                       \o <<[line |-> "backend C test(s) failed.", error |-> None,
                             count |-> Len(test_files)]>>
       ELSE printed' = <<[line |-> "All backend C tests passed", error |-> None,
                          count |-> Len(test_files)]>>
    /\ exit_code' = Some(ExitStatus(failures))
    /\ pc' = "done"
    /\ UNCHANGED <<found, test_files, idx, failures, evaluated, frameVars, tmpfs, trace>>
    /\ UNCHANGED functionVars

\* Lines 154-161: the report, and the value main returns.
Report ==
    /\ pc = "report"
    /\ IF failures # <<>>
       THEN printed' = [i \in 1..Len(failures) |->
                           [line |-> "FAIL:", error |-> Some(failures[i]), count |-> 0]]
                       \o <<[line |-> "backend C test(s) failed.", error |-> None,
                             count |-> Len(failures)]>>
       ELSE printed' = <<[line |-> "All backend C tests passed", error |-> None,
                          count |-> Len(test_files)]>>
    /\ exit_code' = Some(ExitStatus(failures))
    /\ pc' = "done"
    /\ UNCHANGED <<found, test_files, idx, failures, evaluated, frameVars, tmpfs, trace>>
    /\ UNCHANGED functionVars

Next ==
    \/ Discover
    \/ CallRunTest
    \/ ReadLine
    \/ EndOfFile
    \/ MakeTemp
    \/ MakeTempFails
    \/ CopySiblings
    \/ CopyFails
    \/ RunToolchain
    \/ ToolchainRaises
    \/ VerifyToolchain
    \/ CompileAndRun
    \/ CompileAndRunRaises
    \/ VerifyGenerated
    \/ Collect
    \/ Report

Spec == Init /\ [][Next]_vars

\* ------------------------------------------- the functions on their own

\* The process of the test runner has not started.
NoProcess ==
    /\ found = {}
    /\ test_files = <<>>
    /\ idx = 1
    /\ failures = <<>>
    /\ printed = <<>>
    /\ exit_code = None
    /\ pc = "main"
    /\ meta = InitialMetadata
    /\ nread = 0
    /\ parent = EmptyDir
    /\ tmp_path = None
    /\ tmpfs = <<>>
    /\ compile_res = None
    /\ gcc_res = None
    /\ run_res = None
    /\ error = None
    /\ trace = <<>>
    /\ evaluated = <<>>

\* What expect_stderr can be after parse_metadata.
ExpectStderrs == {None, Some(<<"a">>), Some(<<"b">>)}

\* What parse_metadata and replace_macros hand to the rest of run_test.
Metadata ==
    [command : {Some(<<"ROOT/build/vexel", "t">>)}, expect_exit : ExitCodes,
     expect_stderr : ExpectStderrs, run_generated : BOOLEAN, raised : {"no"}]

\* A test, the answers of its three commands, and another expect_stderr that
\* the same test could carry.
InitRunTest ==
    /\ run_test_args \in
           { Some(a) : a \in [file : {1}, m : Metadata, other : ExpectStderrs,
                               res : Results, gcc : Results, run : Results] }
    /\ run_test_errors = None
    /\ lines = <<>> /\ parsed = None
    /\ main_args = None /\ main_results = None
    /\ NoProcess

\* run_test is run on the test as it is, and on the test with the other
\* expect_stderr; the commands answer the same both times.
RunTestTwice ==
    /\ run_test_errors = None
    /\ LET a == run_test_args[1]
       IN  run_test_errors' =
               Some(<<run_test(a.file, a.m, a.res, a.gcc, a.run),
                      run_test(a.file, [a.m EXCEPT !.expect_stderr = a.other],
                               a.res, a.gcc, a.run)>>)
    /\ UNCHANGED <<processVars, lines, parsed, run_test_args, main_args, main_results>>

NextRunTest == RunTestTwice

SpecRunTest == InitRunTest /\ [][NextRunTest]_vars

\* The lines parse_metadata is tried on: those of FileLines, and directives
\* with upper-case keys, values that end in a blank, further truthy and
\* non-truthy values, a negative exit code and a key that is almost one of
\* the four.
ParserLines ==
    FileLines \cup
    { Line("COMMAND", <<"t", " ">>),
      Line("expect-exit", <<"-", "1">>),
      Line("Run-Generated", <<"1">>),
      Line("run-generated", <<"Y", "E", "S", " ">>),
      Line("run-generated", <<"0">>),
      Line("expect_exit", <<"x">>),
      Line("commands", <<"t">>) }

\* A file of at most MaxLines lines.
InitParse ==
    /\ lines \in UNION { [1..n -> ParserLines] : n \in 0..MaxLines }
    /\ parsed = None
    /\ run_test_args = None /\ run_test_errors = None
    /\ main_args = None /\ main_results = None
    /\ NoProcess

\* Lines 19-47: parse_metadata is called on the file.
Parse ==
    /\ parsed = None
    /\ parsed' = Some(parse_metadata(lines))
    /\ UNCHANGED <<processVars, lines, run_test_args, run_test_errors, main_args,
                   main_results>>

NextParse == Parse

SpecParse == InitParse /\ [][NextParse]_vars

\* What a call of run_test can do in main: return "" or a diagnostic, or let
\* the ValueError of parse_metadata through.
Returns ==
    { [raised |-> FALSE, error |-> None],
      [raised |-> FALSE, error |-> Some("exit mismatch")],
      [raised |-> FALSE, error |-> Some("stderr mismatch")],
      [raised |-> TRUE, error |-> None] }

\* The orders in which rglob can list the test files S.
Enumerations(S) ==
    { l \in [1..Cardinality(S) -> S] : \A i, j \in DOMAIN l : i # j => l[i] # l[j] }

\* main taking the test files in the order rglob lists them.
discover_unsorted(listing) == listing

\* Line 143: sorted() over what rglob lists.
discover(listing) == sorted({listing[i] : i \in DOMAIN listing})

\* Lines 149-152: the loop over the test files; returns tells what run_test
\* does on each file.  An exception leaves the loop.
RECURSIVE main_loop(_, _, _)
main_loop(files, returns, seen) ==
    IF files = <<>> THEN [evaluated |-> seen, raised |-> FALSE]
    ELSE IF returns[Head(files)].raised THEN [evaluated |-> seen, raised |-> TRUE]
    ELSE main_loop(Tail(files), returns,
                   Append(seen, [file |-> Head(files),
                                 error |-> returns[Head(files)].error]))

\* Lines 140-165: what a run of main shows: the tests that passed and
\* failed, in the order they were run, and the exit status of the process.
main(listing, returns) ==
    LET files == discover(listing)
        loop == main_loop(files, returns, <<>>)
        fails == SelectSeq(loop.evaluated, LAMBDA e : e.error # None)
    IN  [evaluated |-> loop.evaluated,
         exit_code |-> IF files = <<>> THEN 0
                       ELSE IF loop.raised THEN UncaughtExit
                       ELSE ExitStatus(fails)]

\* A test tree: the test files, what run_test does on each (the contents of
\* the file and the answers of its commands are the same in both runs), and
\* the order in which rglob lists the files in each of the two runs.
InitMain ==
    /\ main_args \in UNION {
           { Some([first |-> a, second |-> b, returns |-> f]) :
               a \in Enumerations(S), b \in Enumerations(S), f \in [S -> Returns] } :
           S \in SUBSET Paths }
    /\ main_results = <<None, None>>
    /\ lines = <<>> /\ parsed = None
    /\ run_test_args = None /\ run_test_errors = None
    /\ NoProcess

\* The first run of the suite.
MainFirst ==
    /\ main_results[1] = None
    /\ main_results' = [main_results EXCEPT
                            ![1] = Some(main(main_args[1].first, main_args[1].returns))]
    /\ UNCHANGED <<processVars, lines, parsed, run_test_args, run_test_errors, main_args>>

\* The second run of the suite, on the same tree.
MainSecond ==
    /\ main_results[2] = None
    /\ main_results' = [main_results EXCEPT
                            ![2] = Some(main(main_args[1].second, main_args[1].returns))]
    /\ UNCHANGED <<processVars, lines, parsed, run_test_args, run_test_errors, main_args>>

NextMain ==
    \/ MainFirst
    \/ MainSecond

SpecMain == InitMain /\ [][NextMain]_vars

\* ------------------------------------------------------------ claims

\* run_test has returned to main: its value is in error, its locals are
\* still as it left them.
Returned == pc = "collect"

\* The process has ended, by main returning or by an uncaught exception.
Ended == exit_code # None

\* parse_metadata has raised its ValueError for the current test file.
ConfigurationError == meta.raised # "no"

\* C1: in direct mode run_test returns "" exactly when the toolchain's exit
\* code equals expect_exit and, if expect_stderr is set, it occurs in the
\* toolchain's stderr; every other result returns a diagnostic of direct mode.
C1_DirectVerdict ==
    (Returned /\ ~meta.run_generated) =>
        LET res == compile_res[1]
            asExpected ==
                /\ res.returncode = meta.expect_exit
                /\ meta.expect_stderr # None =>
                       IsSubstring(meta.expect_stderr[1], res.stderr)
        IN  /\ (error = None) <=> asExpected
            /\ error # None => error[1].head \in {"exit mismatch", "stderr mismatch"}

\* A direct-mode test passes on exit code 1 with the expected text inside,
\* not at the start of, the toolchain's stderr.
C1_Witness ==
    /\ Returned
    /\ ~meta.run_generated
    /\ meta.expect_exit = 1
    /\ meta.expect_stderr = Some(<<"a">>)
    /\ compile_res[1].stderr = <<"b", "a">>
    /\ error = None

\* C2: in generated mode a toolchain that exits non-zero makes run_test
\* return a "compile failed" diagnostic, whatever expect_exit is.
C2_CompileFailed ==
    (Returned /\ meta.run_generated /\ compile_res[1].returncode # 0) =>
        /\ error # None
        /\ error[1].head = "compile failed"

\* The toolchain exits with the very code expect_exit names, and the test
\* fails all the same.
C2_Witness ==
    /\ Returned
    /\ meta.run_generated
    /\ meta.expect_exit = 1
    /\ compile_res[1].returncode = 1
    /\ error # None

\* C3: in generated mode run_test returns "" exactly when the toolchain
\* exits 0, gcc exits 0 and the binary's exit code equals expect_exit; a
\* binary that exits with another code yields a runtime exit mismatch.
C3_GeneratedVerdict ==
    (Returned /\ meta.run_generated) =>
        /\ (error = None) <=>
               /\ compile_res[1].returncode = 0
               /\ gcc_res # None /\ gcc_res[1].returncode = 0
               /\ run_res # None /\ run_res[1].returncode = meta.expect_exit
        /\ (run_res # None /\ run_res[1].returncode # meta.expect_exit) =>
               (error # None /\ error[1].head = "runtime exit mismatch")

\* A generated-mode test passes with a binary that exits 1, as expected.
C3_Witness ==
    /\ Returned
    /\ meta.run_generated
    /\ meta.expect_exit = 1
    /\ run_res # None /\ run_res[1].returncode = 1
    /\ error = None

\* The number of calls of run_test so far: the loop calls it on
\* test_files[1], test_files[2], ... in turn, and idx is its position.
Called ==
    IF pc = "main" THEN 0
    ELSE IF pc \in {"run_test", "report", "done"} THEN idx - 1
    ELSE idx

\* Whether run_test has been called on every discovered test file.
AllCalled == Called = Len(test_files)

\* Whether run_test has returned for every discovered test file, in order.
AllReturned ==
    /\ Len(evaluated) = Len(test_files)
    /\ \A i \in DOMAIN evaluated : evaluated[i].file = test_files[i]

\* C4: a configuration error in one test file (no @command, or a bad
\* @expect-exit) fails that file alone: once the process has ended, run_test
\* has been called on every discovered test file and the report has been
\* printed.
C4_ConfigErrorIsPerFile ==
    (Ended /\ ConfigurationError) => (AllCalled /\ printed # <<>>)

\* The diagnostics of the calls of run_test that returned one, in order.
RECURSIVE FailedDiags(_)
FailedDiags(evs) ==
    IF evs = <<>> THEN <<>>
    ELSE (IF Head(evs).error # None THEN Head(evs).error ELSE <<>>) \o FailedDiags(Tail(evs))

\* C5: the aggregator never stops early: once the process has ended, other
\* than by the environment failing (no temporary directory, a copy or a
\* subprocess that cannot be started), run_test has been called on every
\* discovered test file, once and in lexicographic order, and failures holds
\* exactly the diagnostics of the tests that failed.
C5_NeverStopsEarly ==
    (Ended /\ (pc = "crashed" => ConfigurationError)) =>
        /\ \A i, j \in DOMAIN test_files : i < j => test_files[i] < test_files[j]
        /\ {test_files[i] : i \in DOMAIN test_files} = found
        /\ AllCalled
        /\ \A i \in DOMAIN evaluated : evaluated[i].file = test_files[i]
        /\ failures = FailedDiags(evaluated)

\* C6: the process exits 0 exactly when every discovered test passed (an
\* empty suite included), and exits 1 whenever a test failed.
C6_ExitCode ==
    Ended =>
        /\ (exit_code = Some(0)) <=>
               (pc = "done" /\ AllReturned /\ \A i \in DOMAIN evaluated : evaluated[i].error = None)
        /\ (\E i \in DOMAIN evaluated : evaluated[i].error # None) => exit_code = Some(1)

\* Two tests have failed and main has returned.
C6_Witness ==
    /\ pc = "done"
    /\ Len(failures) = 2
    /\ exit_code = Some(1)

\* C7: with no test file discovered, main reports that none was found and
\* returns 0 at once: no file is parsed, no temporary directory is made and
\* no subprocess is started.
C7_EmptySuite ==
    (pc # "main" /\ test_files = <<>>) =>
        /\ pc = "done"
        /\ printed = <<[line |-> "No backend C tests found.", error |-> None, count |-> 0]>>
        /\ exit_code = Some(0)
        /\ evaluated = <<>>
        /\ meta = InitialMetadata /\ nread = 0
        /\ tmp_path = None /\ DOMAIN tmpfs = {}
        /\ trace = <<>>

\* Discovery has found nothing and main has returned.
C7_Witness ==
    /\ pc = "done"
    /\ found = {}
    /\ test_files = <<>>

\* The statements of run_test inside the with block.
InWithBlock == pc \in {"copy", "toolchain", "verify", "compile_and_run", "verify_generated"}

\* C8: the temporary directory of a test exists only while run_test is in
\* its with block: it is gone when run_test has returned or an exception has
\* left the block, so no directory of an earlier test exists when the next
\* test starts, and at most one exists at any time.
C8_TempDirScoped ==
    /\ Cardinality(DOMAIN tmpfs) <= 1
    /\ InWithBlock => DOMAIN tmpfs = {tmp_path[1]}
    /\ ~InWithBlock => DOMAIN tmpfs = {}

\* In the second test an exception has left the with block after the
\* toolchain ran, and no temporary directory is left.
C8_Witness ==
    /\ pc = "crashed"
    /\ idx = 2
    /\ tmp_path # None
    /\ trace # <<>>
    /\ DOMAIN tmpfs = {}

\* C9: when the toolchain command starts, its working directory holds
\* exactly a copy of every regular file of the test file's directory, no
\* subdirectory and nothing a command of an earlier test wrote; and no
\* original ever has the content a command wrote.
C9_Isolation ==
    /\ pc = "toolchain" =>
           \A n \in Names :
               tmpfs[tmp_path[1]][n] = IF parent[n] = "orig" THEN "orig" ELSE "absent"
    /\ \A n \in Names : parent[n] # "new"

\* The second test starts its toolchain in a directory without "data", which
\* its own directory holds only as a subdirectory, after the first test ran.
C9_Witness ==
    /\ pc = "toolchain"
    /\ idx = 2
    /\ parent["data"] = "dir"
    /\ tmpfs[tmp_path[1]]["data"] = "absent"

\* C10: every diagnostic collected carries the command, the expected value,
\* the actual value, and both captured streams.
C10_FullDiagnostics ==
    \A i \in DOMAIN failures :
        LET d == failures[i]
        IN  /\ d.command # None
            /\ d.expected # None \/ d.substring # None
            /\ d.got # None
            /\ d.stdout # None
            /\ d.stderr # None

\* C11: in generated mode the value run_test returns does not depend on
\* expect_stderr: with the same answers of the toolchain, gcc and the binary,
\* the test returns the same value (so the same pass or fail) whatever
\* expect_stderr is, absent or any text.
C11_StderrNotConsulted ==
    (run_test_errors # None /\ run_test_args[1].m.run_generated) =>
        run_test_errors[1][1] = run_test_errors[1][2]

\* A generated-mode test passes without expect_stderr and with an
\* expect_stderr that occurs in no stream of any of its commands.
C11_Witness ==
    /\ run_test_errors # None
    /\ run_test_args[1].m.run_generated
    /\ run_test_args[1].m.expect_stderr = None
    /\ run_test_args[1].other = Some(<<"b">>)
    /\ run_test_args[1].res.stderr = <<>>
    /\ run_test_args[1].gcc.stderr = <<>>
    /\ run_test_args[1].run.stderr = <<"a">>
    /\ run_test_errors[1] = <<None, None>>

\* C12: two runs of the suite over the same test files, with run_test doing
\* the same on each file in both, show the same tests passing and failing in
\* the same order and end with the same exit status, in whatever order rglob
\* lists the files in each run.
C12_SuiteDeterminism ==
    (main_results[1] # None /\ main_results[2] # None) =>
        main_results[1] = main_results[2]

\* rglob lists two test files in opposite orders in the two runs; the first
\* file fails and the second passes, in both runs.
C12_Witness ==
    /\ main_args[1].first = <<2, 1>>
    /\ main_args[1].second = <<1, 2>>
    /\ main_results[1] # None /\ main_results[2] # None
    /\ main_results[1][1].evaluated =
           <<[file |-> 1, error |-> Some("exit mismatch")], [file |-> 2, error |-> None]>>
    /\ main_results[2][1].exit_code = 1

\* The value of the last directive of the file whose key, in lower case, is
\* the given one; None when the file has no such directive.
RECURSIVE LastDirective(_, _)
LastDirective(ls, key) ==
    IF ls = <<>> THEN None
    ELSE IF ls[Len(ls)].match /\ lowerKey(ls[Len(ls)].key) = key
         THEN Some(ls[Len(ls)].value)
         ELSE LastDirective(SubSeq(ls, 1, Len(ls) - 1), key)

\* Some @expect-exit directive of the file has a value that is no integer.
InvalidExpectExit(ls) ==
    \E i \in DOMAIN ls :
        ls[i].match /\ lowerKey(ls[i].key) = "expect-exit" /\ ~IntOk(strip(ls[i].value))

\* C13 as stated: with valid other directives, parse_metadata fails exactly
\* when the file has no @command directive, and otherwise returns the value
\* of the last one as the command, the empty value included.
C13_MissingCommandOnly ==
    (parsed # None /\ ~InvalidExpectExit(lines)) =>
        LET c == LastDirective(lines, "command")
        IN  /\ (parsed[1].raised # "no") <=> (c = None)
            /\ c # None =>
                   (parsed[1].raised = "no" /\ parsed[1].command = Some(strip(c[1])))

\* C13, amended: with valid other directives, parse_metadata fails with
\* "Missing @command" exactly when the file has no @command directive or the
\* value of the last one is empty after trimming; otherwise it returns the
\* trimmed value of the last @command directive as the command.
C13_MissingOrEmptyCommand ==
    (parsed # None /\ ~InvalidExpectExit(lines)) =>
        LET c == LastDirective(lines, "command")
            absent == c = None \/ strip(c[1]) = <<>>
        IN  /\ (parsed[1].raised = "Missing @command") <=> absent
            /\ ~absent =>
                   (parsed[1].raised = "no" /\ parsed[1].command = Some(strip(c[1])))

\* A file with a command and then an @command directive without a value:
\* parse_metadata reports the command as missing.
C13_Witness ==
    /\ lines = <<Line("command", <<"{VEXEL}", "t">>), Line("Command", <<>>)>>
    /\ parsed # None
    /\ parsed[1].raised = "Missing @command"

\* run_test is at work on test_files[idx], or has just returned or raised:
\* meta and trace are those of that test.
InTest == pc \notin {"main", "run_test", "report", "done"}

\* The subprocesses of a test in the order of the stages.
StageOrder == <<"toolchain", "gcc", "out">>

\* C14: the subprocesses of a test are started in the order toolchain, gcc,
\* binary, each at most once; the toolchain has run, once and first, when
\* run_test returns; gcc runs only in generated mode after a toolchain that
\* exited 0, and the binary only after a gcc that exited 0; so a failing
\* stage is the last one, and direct mode runs the toolchain alone.
C14_StagesInOrder ==
    InTest =>
        /\ Len(trace) <= Len(StageOrder)
        /\ \A i \in DOMAIN trace : trace[i].stage = StageOrder[i]
        /\ Returned => Len(trace) >= 1
        /\ Len(trace) >= 2 => (meta.run_generated /\ trace[1].returncode = 0)
        /\ Len(trace) >= 3 => trace[2].returncode = 0

\* A generated-mode test whose gcc fails: the binary is not run.
C14_Witness ==
    /\ Returned
    /\ meta.run_generated
    /\ Len(trace) = 2
    /\ trace[1].returncode = 0
    /\ trace[2].stage = "gcc" /\ trace[2].returncode = 1
    /\ error # None

C16_RunGenerated ==
    (parsed # None /\ parsed[1].raised = "no") =>
        LET v == LastDirective(lines, "run-generated")
        IN  parsed[1].run_generated <=>
                (v # None /\ lower(strip(v[1])) \in {<<"t", "r", "u", "e">>, <<"1">>,
                                                     <<"y", "e", "s">>})

\* @run-generated: True followed by @run-generated: no gives false.
C16_Witness ==
    /\ lines = <<Line("command", <<"{VEXEL}", "t">>),
                 Line("run-generated", <<"T", "r", "u", "e">>),
                 Line("run-generated", <<"n", "o">>)>>
    /\ parsed # None
    /\ parsed[1].raised = "no"
    /\ ~parsed[1].run_generated

\* A directive line whose key is none of the four parse_metadata knows.
Unrecognized(l) ==
    l.match /\ lowerKey(l.key) \notin {"command", "expect-exit", "expect-stderr",
                                        "run-generated"}

\* C17: directive lines with an unrecognized key change nothing: on every
\* file parse_metadata returns the same four values, or raises the same
\* error, as on the file without those lines.
C17_UnrecognizedIgnored ==
    parsed # None =>
        parsed[1] = parse_metadata(SelectSeq(lines, LAMBDA l : ~Unrecognized(l)))

\* A file with the directive @expect_exit: x, whose key is not expect-exit:
\* no error is raised and expect_exit keeps its default.
C17_Witness ==
    /\ lines = <<Line("command", <<"{VEXEL}", "t">>), Line("expect_exit", <<"x">>)>>
    /\ parsed # None
    /\ parsed[1].raised = "no"
    /\ parsed[1].expect_exit = 0

\* C18: when main has gone through a suite that is not empty, it has printed
\* one FAIL entry for each test that failed, with that test's diagnostic, in
\* the order the tests were run, and then a summary with the number of tests
\* that failed; when none failed it has printed the summary alone, with the
\* number of test files discovered.
C18_ReportConsistent ==
    (pc = "done" /\ test_files # <<>>) =>
        LET failed == FailedDiags(evaluated)
        IN  /\ AllReturned
            /\ IF failed # <<>>
               THEN /\ Len(printed) = Len(failed) + 1
                    /\ \A i \in DOMAIN failed :
                           printed[i] = [line |-> "FAIL:", error |-> Some(failed[i]),
                                         count |-> 0]
                    /\ printed[Len(printed)] =
                           [line |-> "backend C test(s) failed.", error |-> None,
                            count |-> Len(failed)]
               ELSE printed = <<[line |-> "All backend C tests passed", error |-> None,
                                 count |-> Cardinality(found)]>>

\* Of two tests the first passed and the second failed: one FAIL entry and
\* a summary that counts one failure.
C18_Witness ==
    /\ pc = "done"
    /\ Len(evaluated) = 2
    /\ evaluated[1].error = None
    /\ evaluated[2].error # None
    /\ Len(printed) = 2
    /\ printed[2].count = 1

\* run_test holds no resource: no temporary directory was made or exists, no
\* directory was listed for copying, and no subprocess was started.
NothingAcquired ==
    /\ tmp_path = None
    /\ DOMAIN tmpfs = {}
    /\ parent = EmptyDir
    /\ trace = <<>>

\* parse_metadata has returned and replace_macros has been applied.
CommandResolved ==
    /\ meta.raised = "no"
    /\ meta.command # None
    /\ meta.command[1] = replace_macros(meta.command[1])
    /\ pc # "parse"

\* C19: parsing and macro resolution are over before run_test acquires
\* anything: while parse_metadata runs and when it has raised, the test has
\* no temporary directory, has copied nothing and has started no subprocess,
\* and a temporary directory is made only for a resolved command; and every
\* subprocess starts while the temporary directory of its test exists, with
\* that directory as its working directory.
C19_ParseBeforeResources ==
    /\ []((pc = "parse" \/ ConfigurationError) => NothingAcquired)
    /\ []((InTest /\ ~NothingAcquired) => CommandResolved)
    /\ [][\A i \in (DOMAIN trace') \ (DOMAIN trace) :
              /\ tmp_path # None
              /\ tmp_path[1] \in DOMAIN tmpfs
              /\ trace'[i].cwd = tmp_path
              /\ CommandResolved]_vars

\* The second test file has no @command: run_test raises with nothing
\* acquired, after a first test that had its directory and its subprocesses.
C19_Witness ==
    /\ pc = "crashed"
    /\ ConfigurationError
    /\ idx = 2
    /\ evaluated # <<>>
    /\ NothingAcquired

====
